---- MODULE Spec2Model ----
(***************************************************************************)
(* Model of the essay-analysis service (RAG_Thiago): the document store    *)
(* (collections redacoes, analises, embeddings), the ingestion endpoint    *)
(* analisar_redacao, the background pipeline processar_redacao_async, the  *)
(* seeding script init_mongodb, the scoring agent IAAgent, the assembly of  *)
(* the Analysis, and the embedding writes and retrieval of RAGManager.      *)
(*                                                                         *)
(* Python name resolution is part of the behaviour modelled here: a call   *)
(* of a method the class does not define raises AttributeError, a use of a *)
(* module-level name that is never bound raises NameError.                 *)
(***************************************************************************)
EXTENDS Integers, Sequences, FiniteSets, TLC

\* ---------------------------------------------------------------- bounds
MaxDocs == 2        \* document ids (ObjectId values) that can be generated
MaxRuns == 2        \* pipeline runs (background tasks) over a behaviour
ScriptLen == 6      \* provider responses enumerated for one agent invocation

\* ------------------------------------------------------ program constants
MinChars == 50          \* main.py:218 (and main.py:130)
StopAfterAnalyze == 3   \* ia_agent.py:98  stop_after_attempt(3)
StopAfterProcess == 5   \* ia_agent.py:62  stop_after_attempt(5)

DocIds == 1..MaxDocs
RunIds == 1..MaxRuns
TextLens == {MinChars - 1, MinChars}

Terminal == {"concluida", "erro"}

VARIABLES
  redacoes,       \* collection redacoes: id -> document (status "absent": no record)
  analises,       \* collection analises: set of records
  embeddings,     \* collection embeddings: its records, in insertion order
  erros,          \* collection erros_processamento: set of records
  nextId,         \* next fresh ObjectId
  runs,           \* the background tasks processar_redacao_async
  seed,           \* position of the seeding script init_mongodb
  openai_client,  \* RAGManager.openai_client is configured (OPENAI_API_KEY set)
  script,         \* what the scoring provider answers to its 1st, 2nd, ... call
  inv,            \* the agent invocation in progress
  writers,        \* the calls of RAGManager.store_redacao_embedding
  search,         \* the retrieval call made, with its outcome
  has_vector_search, \* RAGManager.has_vector_search (probed once, at construction)
  asm,            \* the assembly stage of the pipeline (main.py 275-301)
  reply           \* what the last read endpoint or repository call answered

vars == <<redacoes, analises, embeddings, erros, nextId, runs, seed, openai_client, script, inv,
          writers, search, has_vector_search, asm, reply>>
storeVars == <<redacoes, analises, embeddings, erros, nextId>>
ragVars == <<writers, search, has_vector_search, asm, reply>>

\* ----------------------------------------------------------------- store
NoDoc == [status |-> "absent", mensagem_erro |-> "none", data_conclusao |-> FALSE,
          analise_disponivel |-> FALSE, texto_len |-> 0]

NewRedacao(st, len, concl) ==
  [status |-> st, mensagem_erro |-> "none", data_conclusao |-> concl,
   analise_disponivel |-> FALSE, texto_len |-> len]

\* $set of the fields of data on one record
SetFields(doc, data) ==
  [f \in DOMAIN doc |-> IF f \in DOMAIN data THEN data[f] ELSE doc[f]]

\* BaseRepository.insert_one on redacoes: the record is stored, or the store
\* fails, the exception is swallowed and None is returned
insert_one(reds, id, doc, storeOk) ==
  IF storeOk THEN [reds EXCEPT ![id] = doc] ELSE reds

\* BaseRepository.insert_one on analises / embeddings (sets of records)
insert_rec(coll, rec, storeOk) ==
  IF storeOk THEN coll \cup {rec} ELSE coll

\* ------------------------------------------------------------ RAGManager
\* RAGManager.generate_embedding: a plain (not async) method.  Without a
\* configured client it raises ValueError before its try block; with one it
\* calls the provider once and returns the vector, or the zero vector when
\* the provider fails.
generate_embedding(client, providerOk) ==
  IF ~client
    THEN [exc |-> "ValueError", vec |-> "none", calls |-> 0]
    ELSE [exc |-> "none", vec |-> IF providerOk THEN "vector" ELSE "zeros", calls |-> 1]

\* ------------------------------------------- pipeline (api/main.py 211-317)
IdleRun == [kind |-> "none", pc |-> "idle", stage |-> "none", doc |-> 0, len |-> 0,
            embCalls |-> 0, exc |-> "none"]

\* mutant: `update` exists and does what update_one does ($set by _id)
RepoUpdate_asUpdateOne(reds, id, data) ==
  [exc |-> "none",
   reds |-> IF reds[id].status = "absent" THEN reds
            ELSE [reds EXCEPT ![id] = SetFields(@, data)]]

\* mutant: `update` exists and replaces the record by the given fields
RepoUpdate_asReplace(reds, id, data) ==
  [exc |-> "none",
   reds |-> IF reds[id].status = "absent" THEN reds
            ELSE [reds EXCEPT ![id] = SetFields(NoDoc, data)]]

\* mutant: `update` exists and its filter matches every record of the collection
RepoUpdate_updateMany(reds, id, data) ==
  [exc |-> "none",
   reds |-> [x \in DOMAIN reds |->
               IF reds[x].status = "absent" THEN reds[x] ELSE SetFields(reds[x], data)]]

\* `await redacao_repository.update(id, data)` (main.py 215, 219, 307, 314):
\* RedacaoRepository and BaseRepository define find_by_id, find_one,
\* find_many, insert_one, update_one, delete_one, count, find_by_user,
\* update_status and find_pendentes, and no `update`: evaluating the
\* attribute raises AttributeError and the store is not touched.
RepoUpdate(reds, id, data) ==
  [exc |-> "AttributeError", reds |-> reds]

\* The handler `except Exception as e` (main.py 311-317): its first
\* statement uses `logger`, a name main.py never binds, so NameError leaves
\* the coroutine before the status write of line 314.
Handler(reds, id) ==
  [exc |-> "NameError", reds |-> reds]

\* an exception raised inside the try block of processar_redacao_async
Except(run, reds) ==
  LET h == Handler(reds, run.doc)
  IN [run  |-> [run EXCEPT !.pc = IF h.exc = "none" THEN "returned" ELSE "raised",
                           !.exc = h.exc],
      reds |-> h.reds]

\* main.py 225-230: generate_embedding is called synchronously and its
\* result is awaited: a list is not awaitable (TypeError), and without a
\* client the call itself raises ValueError.  Either exception is caught at
\* line 228, where line 229 uses the unbound `logger`: NameError.
EmbeddingStage(client, providerOk) ==
  LET g == generate_embedding(client, providerOk)
  IN [calls |-> g.calls, exc |-> "NameError"]

\* One scheduling step of the coroutine: from a suspension point to the
\* next one, or to its end.
PipelineStep(run, reds, client, providerOk) ==
  CASE run.pc = "queued" ->
         LET u == RepoUpdate(reds, run.doc, [status |-> "processando"])
             at == [run EXCEPT !.stage = "update"]
         IN IF u.exc # "none" THEN Except(at, u.reds)
            ELSE [run |-> [at EXCEPT !.pc = "guard"], reds |-> u.reds]
    [] run.pc = "guard" ->
         IF run.len < MinChars
           THEN LET u == RepoUpdate(reds, run.doc,
                           [status |-> "erro", mensagem_erro |-> "curto"])
                    at == [run EXCEPT !.stage = "guard"]
                IN IF u.exc # "none" THEN Except(at, u.reds)
                   ELSE [run |-> [at EXCEPT !.pc = "returned"], reds |-> u.reds]
           ELSE LET e == EmbeddingStage(client, providerOk)
                IN Except([run EXCEPT !.stage = "embedding", !.embCalls = @ + e.calls], reds)

Finished(r) == runs[r].pc \in {"returned", "raised"}

\* background tasks are numbered in the order they are added
NextTask(r) == runs[r].pc = "idle" /\ \A q \in RunIds : q < r => runs[q].pc # "idle"

\* POST /api/analisar (main.py 59-185) for a text that passes the checks of
\* lines 85-131.  The Document insert may fail silently (insert_one returns
\* None, which is not looked at).  With usar_agente_ia the file is saved
\* and line 162 uses the unbound `logger`: NameError, caught at line 183,
\* where line 184 raises NameError again, so line 165 is not reached and no
\* task is dispatched.  Without it the task is added for the new id.
analisar_redacao(len, usar_agente_ia, storeOk) ==
  /\ nextId <= MaxDocs
  /\ len >= MinChars
  /\ redacoes' = insert_one(redacoes, nextId, NewRedacao("processando", len, FALSE), storeOk)
  /\ nextId' = nextId + 1
  /\ IF usar_agente_ia
       THEN runs' = runs
       ELSE \E r \in RunIds :
              /\ NextTask(r)
              /\ runs' = [runs EXCEPT ![r] =
                            [IdleRun EXCEPT !.kind = "api", !.pc = "queued",
                                            !.doc = nextId, !.len = len]]
  /\ UNCHANGED <<analises, embeddings, erros, seed, openai_client, script, inv, ragVars>>

\* processar_redacao_async(redacao_id, texto, ...) called for an id that was
\* generated before (a repeated or concurrent run), with a text of any length
dispatch(r, d, len) ==
  /\ NextTask(r)
  /\ d < nextId
  /\ runs' = [runs EXCEPT ![r] = [IdleRun EXCEPT !.kind = "api", !.pc = "queued", !.doc = d, !.len = len]]
  /\ UNCHANGED <<storeVars, seed, openai_client, script, inv, ragVars>>

\* the event loop runs a dispatched task up to its next suspension point
processar_redacao_async(r, providerOk) ==
  /\ runs[r].pc \in {"queued", "guard"}
  /\ LET res == PipelineStep(runs[r], redacoes, openai_client, providerOk)
     IN /\ runs' = [runs EXCEPT ![r] = res.run]
        /\ redacoes' = res.reds
  /\ UNCHANGED <<analises, embeddings, erros, nextId, seed, openai_client, script, inv, ragVars>>

\* ------------------------------------------- Celery task (worker.py 101-183)
SampleMax == 500    \* worker.py:181  texto[:500]
WorkerLens == {SampleMax + 1}

Min(a, b) == IF a < b THEN a ELSE b

\* mutant: analisar_completo exists, so the insert of line 151 is reached
WorkerBody_inserts(anas, d) ==
  [exc |-> "none",
   anas |-> anas \cup {[aid |-> Cardinality(anas) + 1, redacao_id |-> d,
                        origem |-> "worker", notas |-> 5, nota_geral |-> TRUE]}]

\* mutant: analisar_completo exists, the insert of line 151 is made and the
\* Elasticsearch indexing of line 155 raises
WorkerBody_insertsThenFails(anas, d) ==
  [exc |-> "ConnectionError",
   anas |-> anas \cup {[aid |-> Cardinality(anas) + 1, redacao_id |-> d,
                        origem |-> "worker", notas |-> 5, nota_geral |-> TRUE]}]

\* the try block of processar_redacao (lines 121-170): line 130 calls
\* analyzer.analisar_completo, which RedacaoAnalyzer does not define
\* (it defines __init__, _carregar_base_conhecimento, _carregar_exemplos):
\* AttributeError, before the insert of line 151
WorkerBody(anas, d) ==
  [exc |-> "AttributeError", anas |-> anas]

\* the handler (lines 172-183): with a connected client the failure is
\* recorded in erros_processamento with the first 500 characters of the
\* text, and the exception is raised again; `redacoes` is never written
WorkerHandler(errs, d, len, connected, storeOk) ==
  IF connected /\ storeOk
    THEN errs \cup {[redacao_id |-> d, texto_parcial |-> Min(len, SampleMax)]}
    ELSE errs

\* a Celery task runs to its end on its own worker
processar_redacao(r, d, len, connected, storeOk) ==
  /\ NextTask(r)
  /\ d < nextId
  /\ LET b == WorkerBody(analises, d)
     IN /\ analises' = b.anas
        /\ erros' = IF b.exc = "none" THEN erros
                    ELSE WorkerHandler(erros, d, len, connected, storeOk)
        /\ runs' = [runs EXCEPT ![r] =
                      [IdleRun EXCEPT !.kind = "worker", !.doc = d, !.len = len,
                                      !.stage = "analyze", !.exc = b.exc,
                                      !.pc = IF b.exc = "none" THEN "returned" ELSE "raised"]]
  /\ UNCHANGED <<redacoes, embeddings, nextId, seed, openai_client, script, inv, ragVars>>

\* ------------------------------------- scripts/init_mongodb.py 217-249
\* One iteration of the sample loop: the Document is inserted already
\* "concluida" (lines 219-237), then its Analysis (240-249).  insert_one
\* returns None on a store failure and ObjectId(None) is a fresh id, so the
\* Analysis of a Document whose insert failed carries the id of no Document.
IdleSeed == [pc |-> "redacao", rid |-> 0]

SeedRedacao(storeOk) ==
  /\ seed.pc = "redacao"
  /\ nextId <= MaxDocs
  /\ redacoes' = insert_one(redacoes, nextId, NewRedacao("concluida", MinChars, TRUE), storeOk)
  /\ seed' = [pc |-> "analise", rid |-> IF storeOk THEN nextId ELSE 0]
  /\ nextId' = nextId + 1
  /\ UNCHANGED <<analises, embeddings, erros, runs, openai_client, script, inv, ragVars>>

SeedAnalise(storeOk) ==
  /\ seed.pc = "analise"
  /\ LET rid == IF seed.rid = 0 THEN nextId ELSE seed.rid
     IN analises' = insert_rec(analises,
                      [aid |-> Cardinality(analises) + 1, redacao_id |-> rid, origem |-> "seed",
                       notas |-> 3, nota_geral |-> TRUE],
                      storeOk)
  /\ nextId' = IF seed.rid = 0 THEN nextId + 1 ELSE nextId
  /\ seed' = IdleSeed
  /\ UNCHANGED <<redacoes, embeddings, erros, runs, openai_client, script, inv, ragVars>>

\* ------------------------------------------------ IAAgent (utils/ia_agent.py)
Outcomes == {"ok", "malformed", "raise"}   \* of one call of the scoring provider
Primary == {"analyze_text", "process_document"}
Secondary == {"extract_key_points", "generate_improvement_suggestions"}
FileOutcomes == {"ok", "unreadable", "empty"}

NoResult == [kind |-> "none", attempt |-> 0, inner |-> "none"]
MaxChars == 14000   \* ia_agent.py:110  max_chars = 14000
Ellipsis == 3       \* ia_agent.py:112  len("...")
TextSizes == {MaxChars, MaxChars + 1}

\* lines 110-112 of analyze_text: the essay text of the request, for a text
\* of len characters: text[:max_chars] + "..." when the text is longer
\* than max_chars, the text itself otherwise
EssayInPrompt(len) ==
  IF len > MaxChars THEN [len |-> MaxChars + Ellipsis, kept |-> MaxChars]
  ELSE [len |-> len, kept |-> len]

NoEssay == [len |-> 0, kept |-> 0]
IdleInv == [fn |-> "none", pc |-> "idle", file |-> "ok", outer |-> 0, inner |-> 0,
            calls |-> 0, result |-> NoResult, raised |-> FALSE,
            text |-> 0, essay |-> NoEssay]

\* tenacity's @retry(stop=stop_after_attempt(n)) around one execution of the
\* decorated body: a returned value is returned; an exception is retried
\* until the n-th attempt, after which RetryError is raised
Retrying(bodyRaised, attempt, stopAfter) ==
  IF ~bodyRaised THEN "return"
  ELSE IF attempt >= stopAfter THEN "RetryError" ELSE "retry"

\* mutant: the body lets a provider exception through to the decorator
AnalyzeBody_noCatch(outcome, n) ==
  [raised |-> outcome = "raise",
   result |-> [kind |-> IF outcome = "ok" THEN "analysis" ELSE "error",
               attempt |-> n, inner |-> "none"]]

\* the body of analyze_text (ia_agent.py 109-153) on the n-th provider call:
\* the parsed JSON is returned; JSONDecodeError (line 147) and every other
\* exception (line 151) are caught and an {"error": ...} dict is returned
AnalyzeBody(outcome, n) ==
  [raised |-> FALSE,
   result |-> [kind |-> IF outcome = "ok" THEN "analysis" ELSE "error",
               attempt |-> n, inner |-> "none"]]

\* the bodies of extract_key_points (166-202) and
\* generate_improvement_suggestions (215-259): the list found in the parsed
\* JSON, and [] on any exception, json.loads included
SecondaryBody(outcome, n) ==
  [raised |-> FALSE,
   result |-> [kind |-> IF outcome = "ok" THEN "list" ELSE "empty",
               attempt |-> n, inner |-> "none"]]

\* one execution of the body of the invoked function, up to its return,
\* its retry or its exception
AgentStep(v, scr) ==
  LET n == v.calls + 1
  IN CASE v.fn = "analyze_text" ->
            LET b == AnalyzeBody(scr[n], n)
                d == Retrying(b.raised, v.inner + 1, StopAfterAnalyze)
            IN IF d = "return"
                 THEN [v EXCEPT !.calls = n, !.inner = @ + 1, !.pc = "done", !.result = b.result]
               ELSE IF d = "retry"
                 THEN [v EXCEPT !.calls = n, !.inner = @ + 1]
               ELSE [v EXCEPT !.calls = n, !.inner = @ + 1, !.pc = "done", !.raised = TRUE]
       [] v.fn = "process_document" /\ v.file # "ok" ->
            \* lines 76-83 and 94-96: no text, or open/extract raised
            [v EXCEPT !.outer = @ + 1, !.pc = "done",
                      !.result = [kind |-> "error", attempt |-> 0, inner |-> "none"]]
       [] v.fn = "process_document" /\ v.file = "ok" ->
            \* line 86: await self.analyze_text(text), itself decorated
            LET b == AnalyzeBody(scr[n], n)
                d == Retrying(b.raised, v.inner + 1, StopAfterAnalyze)
            IN IF d = "return"
                 THEN [v EXCEPT !.calls = n, !.inner = @ + 1, !.outer = 1, !.pc = "done",
                         !.result = [kind |-> "doc", attempt |-> n, inner |-> b.result.kind]]
               ELSE IF d = "retry"
                 THEN [v EXCEPT !.calls = n, !.inner = @ + 1]
               ELSE \* RetryError of analyze_text is caught at line 94
                    [v EXCEPT !.calls = n, !.inner = @ + 1, !.outer = 1, !.pc = "done",
                         !.result = [kind |-> "error", attempt |-> n, inner |-> "none"]]
       [] v.fn \in Secondary ->
            LET b == SecondaryBody(scr[n], n)
            IN [v EXCEPT !.calls = n, !.pc = "done", !.result = b.result, !.raised = b.raised]

\* a call of an agent method on a text of len characters (for
\* process_document: the text extracted from the file, passed to
\* analyze_text at line 86)
IAInvoke(fn, file, len) ==
  /\ inv.pc = "idle"
  /\ fn = "process_document" \/ file = "ok"
  /\ inv' = [IdleInv EXCEPT !.fn = fn, !.pc = "running", !.file = file, !.text = len,
                            !.essay = IF fn = "analyze_text" \/ (fn = "process_document" /\ file = "ok")
                                        THEN EssayInPrompt(len) ELSE NoEssay]
  /\ UNCHANGED <<storeVars, runs, seed, openai_client, script, ragVars>>

\* mutant: the agent marks the documents in error when its call failed
IAStep_marksError ==
  /\ inv.pc = "running"
  /\ inv.calls < ScriptLen
  /\ inv' = AgentStep(inv, script)
  /\ redacoes' = [d \in DocIds |->
                    IF redacoes[d].status # "absent" /\ inv'.result.kind \in {"error", "empty"}
                      THEN [redacoes[d] EXCEPT !.status = "erro"] ELSE redacoes[d]]
  /\ UNCHANGED <<analises, embeddings, erros, nextId, runs, seed, openai_client, script, ragVars>>

IAStep ==
  /\ inv.pc = "running"
  /\ inv.calls < ScriptLen
  /\ inv' = AgentStep(inv, script)
  /\ UNCHANGED <<storeVars, runs, seed, openai_client, script, ragVars>>

\* ------------------------------ assembly stage (api/main.py 275-301)
\* The score result is a JSON object: each key is absent, or present with
\* null, with an empty list or with a non-empty list.
ScoreFields == {"nota_geral", "notas", "recomendacoes", "pontos_fortes"}
FieldStates == {"absent", "null", "empty", "list"}
EmptyDict == [f \in ScoreFields |-> "absent"]

None == [null |-> TRUE, items |-> <<>>]
List(items) == [null |-> FALSE, items |-> items]

\* the value stored under a present key
Value(f, st) ==
  IF st = "null" THEN None
  ELSE IF st = "empty" THEN List(<<>>) ELSE List(<<f>>)

\* main.py 290-296: the five default competency scores
DefaultNotas ==
  List(<<"norma culta", "compreensao da proposta", "argumentacao",
         "coesao textual", "proposta de intervencao">>)

\* mutant: `d.get(f) or default`
dict_get_orDefault(d, f, default) ==
  IF d[f] \in {"absent", "null", "empty"} THEN default ELSE Value(f, d[f])

\* dict.get(f, default): the default only when the key is absent; a key
\* present with None or [] gives None or []
dict_get(d, f, default) ==
  IF d[f] = "absent" THEN default ELSE Value(f, d[f])

\* mutant: the suggestions are asked for whatever the score result is
Truthy_always(d) == TRUE

\* bool(dict): a dict with no key is false
Truthy(d) == \E f \in ScoreFields : d[f] # "absent"

\* what a secondary call of the agent returns: its list, or [] when the
\* provider call or the parse failed
SecondaryOutput(tag, outcome) ==
  IF SecondaryBody(outcome, 1).result.kind = "list" THEN List(<<tag>>) ELSE List(<<>>)

IdleAsm == [pc |-> "idle", raw |-> EmptyDict, isError |-> FALSE,
            sugCalled |-> FALSE, sugOut |-> "ok", kpOut |-> "ok",
            analise |-> [nota_geral |-> None, notas |-> None,
                         recomendacoes |-> None, pontos_fortes |-> None]]

\* lines 275-301 for the result `raw` of the scoring call (isError: it is
\* an {"error": ...} dict), a text that is not empty, and the outcomes of
\* the two secondary provider calls
Assemble(raw, isError, sugOut, kpOut) ==
  LET analysis_result == IF isError THEN EmptyDict ELSE raw          \* 276-278
      called == Truthy(analysis_result)                               \* 281
      sugestoes == IF called THEN SecondaryOutput("sugestao", sugOut) ELSE List(<<>>)
      pontos_chave == SecondaryOutput("ponto_chave", kpOut)           \* 282
  IN [pc |-> "assembled", raw |-> raw, isError |-> isError,
      sugCalled |-> called, sugOut |-> sugOut, kpOut |-> kpOut,
      analise |->
        [nota_geral    |-> dict_get(analysis_result, "nota_geral", List(<<"7.0">>)),
         notas         |-> dict_get(analysis_result, "notas", DefaultNotas),
         recomendacoes |-> dict_get(analysis_result, "recomendacoes", sugestoes),
         pontos_fortes |-> dict_get(analysis_result, "pontos_fortes", pontos_chave)]]

AssembleStage(raw, isError, sugOut, kpOut) ==
  /\ asm.pc = "idle"
  /\ isError => raw = EmptyDict
  /\ asm' = Assemble(raw, isError, sugOut, kpOut)
  /\ UNCHANGED <<storeVars, runs, seed, openai_client, script, inv,
                 writers, search, has_vector_search, reply>>

\* ------------------- RAGManager.store_redacao_embedding (rag_manager.py 81-138)
MaxWriters == 2      \* calls of store_redacao_embedding over a behaviour
SnippetMax == 1000   \* rag_manager.py:108 and :123  texto[:1000]

WriterIds == 1..MaxWriters

\* vectors of the model: two components in place of 1536
ZeroVec == <<0, 0>>
Vecs == {ZeroVec, <<1, 0>>, <<0, 1>>, <<1, 1>>, <<-1, 0>>}

\* a text, with the vector the embedding provider computes from it
NoText == [id |-> 0, vec |-> ZeroVec, len |-> 0]
Texts == {[id |-> 1, vec |-> <<1, 0>>, len |-> SnippetMax + 1],
          [id |-> 2, vec |-> <<0, 1>>, len |-> MinChars]}

\* texto[:1000]
Snippet(t) == [id |-> t.id, len |-> Min(t.len, SnippetMax)]

\* the list generate_embedding returns for a text: the provider's vector,
\* or [0.0] * 1536 when the provider call failed (line 79)
EmbeddingOf(vec, g) == IF g.vec = "zeros" THEN ZeroVec ELSE vec

\* db.embeddings.find_one({"redacao_id": d}): the _id of the record, 0 for None
FindEmbedding(embs, d) ==
  LET S == {i \in 1..Len(embs) : embs[i].redacao_id = d}
  IN IF S = {} THEN 0 ELSE embs[CHOOSE i \in S : \A j \in S : i <= j].eid

IdleWriter == [pc |-> "idle", doc |-> 0, text |-> NoText, existing |-> 0, after |-> {},
               result |-> 0, vector |-> ZeroVec, exc |-> "none"]

\* mutant: the second write inserts a record of its own, and no index
\* rejects it
WriteExisting_asInsert(wr, embs, vec, storeOk) ==
  [wr   |-> [wr EXCEPT !.pc = "done", !.vector = vec, !.result = Len(embs) + 1],
   embs |-> Append(embs, [eid |-> Len(embs) + 1, redacao_id |-> wr.doc,
                          vector |-> vec, snippet |-> Snippet(wr.text)])]

\* lines 99-114: update_one by the _id found, $set of vector_embedding,
\* texto_snippet, titulo and data_criacao; the _id found is returned
WriteExisting(wr, embs, vec, storeOk) ==
  IF ~storeOk
    THEN [wr |-> [wr EXCEPT !.pc = "raised", !.exc = "StoreError"], embs |-> embs]
    ELSE [wr   |-> [wr EXCEPT !.pc = "done", !.vector = vec, !.result = wr.existing],
          embs |-> [i \in 1..Len(embs) |->
                      IF embs[i].eid = wr.existing
                        THEN [embs[i] EXCEPT !.vector = vec, !.snippet = Snippet(wr.text)]
                        ELSE embs[i]]]

\* lines 116-134: insert_one of a new record.  The index on redacao_id is
\* unique (mongo_client.py:82): when a record for the id is in the store by
\* now, the insert raises DuplicateKeyError, which line 138 raises again.
WriteNew(wr, embs, vec, storeOk) ==
  IF ~storeOk
    THEN [wr |-> [wr EXCEPT !.pc = "raised", !.exc = "StoreError"], embs |-> embs]
  ELSE IF FindEmbedding(embs, wr.doc) # 0
    THEN [wr |-> [wr EXCEPT !.pc = "raised", !.exc = "DuplicateKeyError"], embs |-> embs]
  ELSE [wr   |-> [wr EXCEPT !.pc = "done", !.vector = vec, !.result = Len(embs) + 1],
        embs |-> Append(embs, [eid |-> Len(embs) + 1, redacao_id |-> wr.doc,
                               vector |-> vec, snippet |-> Snippet(wr.text)])]

\* One store operation of a call, with what the call does before the next
\* one.  The method awaits nothing, so calls made on one event loop do not
\* interleave; calls made by different processes (init_mongodb.py,
\* add_redacao_media.py, several servers on one database) interleave at
\* their store operations.
EmbedStep(wr, embs, client, providerOk, storeOk) ==
  CASE wr.pc = "called" ->                                   \* line 98
         IF ~storeOk
           THEN [wr |-> [wr EXCEPT !.pc = "raised", !.exc = "StoreError"], embs |-> embs]
           ELSE [wr |-> [wr EXCEPT !.pc = "found", !.existing = FindEmbedding(embs, wr.doc)],
                 embs |-> embs]
    [] wr.pc = "found" ->                                    \* lines 99-134
         LET g == generate_embedding(client, providerOk)
             vec == EmbeddingOf(wr.text.vec, g)
         IN IF g.exc # "none"
              THEN [wr |-> [wr EXCEPT !.pc = "raised", !.exc = g.exc], embs |-> embs]
            ELSE IF wr.existing # 0
              THEN WriteExisting(wr, embs, vec, storeOk)
            ELSE WriteNew(wr, embs, vec, storeOk)

\* calls are numbered in the order they are made
NextWriter(w) ==
  writers[w].pc = "idle" /\ \A q \in WriterIds : q < w => writers[q].pc # "idle"

\* rag_manager.store_redacao_embedding(redacao_id, texto) is called
\* (init_mongodb.py:268, add_redacao_media.py:286); `after` is the set of
\* the calls for the same id that had returned by then
call_store(w, d, t) ==
  /\ NextWriter(w)
  /\ writers' = [writers EXCEPT ![w] =
                   [IdleWriter EXCEPT !.pc = "called", !.doc = d, !.text = t,
                      !.after = {q \in WriterIds :
                                   writers[q].pc = "done" /\ writers[q].doc = d}]]
  /\ UNCHANGED <<storeVars, runs, seed, openai_client, script, inv,
                 search, has_vector_search, asm, reply>>

store_redacao_embedding(w, providerOk, storeOk) ==
  /\ writers[w].pc \in {"called", "found"}
  /\ LET res == EmbedStep(writers[w], embeddings, openai_client, providerOk, storeOk)
     IN /\ writers' = [writers EXCEPT ![w] = res.wr]
        /\ embeddings' = res.embs
  /\ UNCHANGED <<redacoes, analises, erros, nextId, runs, seed, openai_client, script, inv,
                 search, has_vector_search, asm, reply>>

\* --------------------------- RAGManager retrieval (rag_manager.py 140-322)
MaxStored == 3   \* Embedding records in the store when a search is made
MaxK == 3        \* largest `limit` asked of vector_search
EmbeddingDim == 1536   \* rag_manager.py:79  [0.0] * 1536

Dot(a, b) == a[1] * b[1] + a[2] * b[2]
NormSq(a) == Dot(a, a)

\* a similarity is kept exactly, as dot / sqrt(den2)
ZeroScore == [dot |-> 0, den2 |-> 1]

\* mutant: no test of the norms
cosine_similarity_noGuard(a, b) ==
  [dot |-> Dot(a, b), den2 |-> NormSq(a) * NormSq(b)]

\* RAGManager._cosine_similarity (lines 220-232)
cosine_similarity(a, b) ==
  IF NormSq(a) = 0 \/ NormSq(b) = 0
    THEN ZeroScore
    ELSE [dot |-> Dot(a, b), den2 |-> NormSq(a) * NormSq(b)]

\* s < t for two similarities (the comparison list.sort makes on the keys)
ScoreLess(s, t) ==
  IF s.dot < 0 /\ t.dot >= 0 THEN TRUE
  ELSE IF s.dot >= 0 /\ t.dot < 0 THEN FALSE
  ELSE IF s.dot >= 0 THEN s.dot * s.dot * t.den2 < t.dot * t.dot * s.den2
  ELSE s.dot * s.dot * t.den2 > t.dot * t.dot * s.den2

\* lines 199-212: one hit per stored record, in the order find returns them
\* (the order of insertion)
Similarities(q, embs) ==
  [i \in 1..Len(embs) |->
     [eid |-> embs[i].eid, redacao_id |-> embs[i].redacao_id,
      snippet |-> embs[i].snippet, score |-> cosine_similarity(q, embs[i].vector)]]

\* mutant: a hit goes in front of the hits of equal score
RECURSIVE InsertDesc_unstable(_, _)
InsertDesc_unstable(sorted, x) ==
  IF sorted = <<>> THEN <<x>>
  ELSE IF ~ScoreLess(x.score, Head(sorted).score) THEN <<x>> \o sorted
  ELSE <<Head(sorted)>> \o InsertDesc_unstable(Tail(sorted), x)

\* x is placed behind every hit whose score is not lower than its own
RECURSIVE InsertDesc(_, _)
InsertDesc(sorted, x) ==
  IF sorted = <<>> THEN <<x>>
  ELSE IF ScoreLess(Head(sorted).score, x.score) THEN <<x>> \o sorted
  ELSE <<Head(sorted)>> \o InsertDesc(Tail(sorted), x)

\* line 215: similarities.sort(key=score, reverse=True); list.sort is
\* stable, with reverse=True too
RECURSIVE SortDesc(_)
SortDesc(seq) ==
  IF seq = <<>> THEN <<>>
  ELSE InsertDesc(SortDesc(SubSeq(seq, 1, Len(seq) - 1)), seq[Len(seq)])

\* mutant: one hit more than asked for
TopN_oneMore(seq, n) == SubSeq(seq, 1, Min(n + 1, Len(seq)))

\* line 216: similarities[:limit], for limit >= 0
TopN(seq, n) == SubSeq(seq, 1, Min(n, Len(seq)))

\* lines 188-216: the exhaustive scan
Scan(q, embs, k) == TopN(SortDesc(Similarities(q, embs)), k)

NativeOutcomes == {"fail", "answer"}

\* mutant: the failure of the native query leaves vector_search
NativeStage_noCatch(hasIdx, outcome, answer) ==
  IF ~hasIdx THEN [exc |-> "none", results |-> <<>>, native |-> "skipped"]
  ELSE IF outcome = "fail"
    THEN [exc |-> "OperationFailure", results |-> <<>>, native |-> "failed"]
  ELSE [exc |-> "none", results |-> answer, native |-> "answered"]

\* lines 157-185: with has_vector_search, the $vectorSearch aggregation;
\* its failure is caught at line 183 and leaves results empty
NativeStage(hasIdx, outcome, answer) ==
  IF ~hasIdx THEN [exc |-> "none", results |-> <<>>, native |-> "skipped"]
  ELSE IF outcome = "fail"
    THEN [exc |-> "none", results |-> <<>>, native |-> "failed"]
  ELSE [exc |-> "none", results |-> answer, native |-> "answered"]

\* mutant: the scan runs whatever the native query returned
VectorSearch_alwaysScans(qv, k, embs, client, providerOk, hasIdx, outcome, readOk) ==
  LET g == generate_embedding(client, providerOk)
      q == EmbeddingOf(qv, g)
      n == NativeStage(hasIdx, outcome, Scan(q, embs, k))
  IN IF g.exc # "none"
       THEN [exc |-> g.exc, query |-> qv, native |-> "none", scanned |-> FALSE,
             results |-> <<>>]
     ELSE IF ~readOk
       THEN [exc |-> "StoreError", query |-> q, native |-> n.native, scanned |-> FALSE,
             results |-> <<>>]
     ELSE [exc |-> "none", query |-> q, native |-> n.native, scanned |-> TRUE,
           results |-> Scan(q, embs, k)]

\* vector_search(query_text, limit), for a query text whose provider vector
\* is qv.  generate_embedding is called outside any try (line 152).  The
\* index is taken to answer with the ranking the scan computes.  Empty
\* results lead to the scan (line 188), whose store read is in no try.
VectorSearch(qv, k, embs, client, providerOk, hasIdx, outcome, readOk) ==
  LET g == generate_embedding(client, providerOk)
      q == EmbeddingOf(qv, g)
      n == NativeStage(hasIdx, outcome, Scan(q, embs, k))
  IN IF g.exc # "none"
       THEN [exc |-> g.exc, query |-> qv, native |-> "none", scanned |-> FALSE,
             results |-> <<>>]
     ELSE IF n.exc # "none"
       THEN [exc |-> n.exc, query |-> q, native |-> n.native, scanned |-> FALSE,
             results |-> <<>>]
     ELSE IF n.results # <<>>
       THEN [exc |-> "none", query |-> q, native |-> n.native, scanned |-> FALSE,
             results |-> n.results]
     ELSE IF ~readOk
       THEN [exc |-> "StoreError", query |-> q, native |-> n.native, scanned |-> FALSE,
             results |-> <<>>]
     ELSE [exc |-> "none", query |-> q, native |-> n.native, scanned |-> TRUE,
           results |-> Scan(q, embs, k)]

\* get_similar_redacoes (lines 234-284) on the hits of vector_search: per
\* hit, the Document and its Analysis are read inside a try; a hit whose
\* Document is missing, or whose reads fail, is left out
GetSimilar(hits, reds, anas, joinOk) ==
  LET Joined(h) == joinOk /\ h.redacao_id \in DOMAIN reds
                          /\ reds[h.redacao_id].status # "absent"
  IN SelectSeq([i \in 1..Len(hits) |->
                  [id |-> hits[i].redacao_id, score |-> hits[i].score,
                   joined |-> Joined(hits[i]),
                   analise |-> \E a \in anas : a.redacao_id = hits[i].redacao_id]],
               LAMBDA r : r.joined)

\* enrich_with_rag (lines 286-322): nothing in it is inside a try, so an
\* exception of vector_search (line 297) or of the corpus read (line 305)
\* leaves it
Enrich(qv, embs, reds, anas, client, providerOk, hasIdx, outcome, readOk, joinOk, corpusOk) ==
  LET v == VectorSearch(qv, 5, embs, client, providerOk, hasIdx, outcome, readOk)
  IN IF v.exc # "none"
       THEN [exc |-> v.exc, failed |-> "vector_search", similares |-> <<>>, exemplos |-> <<>>]
     ELSE IF ~corpusOk
       THEN [exc |-> "StoreError", failed |-> "corpus_exemplos",
             similares |-> <<>>, exemplos |-> <<>>]
     ELSE [exc |-> "none", failed |-> IF joinOk THEN "none" ELSE "join",
           similares |-> GetSimilar(v.results, reds, anas, joinOk),
           exemplos |-> <<"exemplar">>]

IdleSearch == [fn |-> "none", doc |-> 0, a |-> ZeroVec, b |-> ZeroVec, k |-> 0,
               query |-> ZeroVec, dim |-> 0,
               native |-> "none", scanned |-> FALSE, exc |-> "none", failed |-> "none",
               results |-> <<>>, score |-> ZeroScore, similares |-> <<>>, exemplos |-> <<>>,
               recomendacoes |-> <<>>]

searchFrame == <<storeVars, runs, seed, openai_client, script, inv, writers,
                 has_vector_search, asm, reply>>

\* what a call of vector_search leaves unchanged besides has_vector_search
vsFrame == <<storeVars, runs, seed, openai_client, script, inv, writers, asm, reply>>

\* mutant: a failed native query marks the index unavailable
CachedProbe_dropsOnFailure(hasIdx, native) == hasIdx /\ native # "failed"

\* self.has_vector_search after a call of vector_search: the attribute is
\* assigned in __init__ (line 37) from _check_vector_search (lines 39-50);
\* vector_search reads it at line 156 and assigns it nowhere
CachedProbe(hasIdx, native) == hasIdx

\* a call of _cosine_similarity(a, b)
cosine_call(a, b) ==
  /\ search.fn = "none"
  /\ search' = [IdleSearch EXCEPT !.fn = "_cosine_similarity", !.a = a, !.b = b,
                                  !.score = cosine_similarity(a, b)]
  /\ UNCHANGED searchFrame

\* a call of vector_search: it awaits nothing and only reads the store
vector_search(qv, k, providerOk, outcome, readOk) ==
  /\ search.fn = "none" \/ (search.scanned /\ qv = search.a /\ k = search.k)
  /\ LET v == VectorSearch(qv, k, embeddings, openai_client, providerOk,
                           has_vector_search, outcome, readOk)
     IN search' = [IdleSearch EXCEPT !.fn = "vector_search", !.a = qv, !.k = k,
                      !.query = v.query, !.native = v.native, !.scanned = v.scanned,
                      !.exc = v.exc, !.results = v.results]
        /\ has_vector_search' = CachedProbe(has_vector_search, v.native)
  /\ UNCHANGED vsFrame

\* a call of generate_embedding(text), for a text whose provider vector is
\* qv: the list returned has the 1536 components of the provider's answer
\* or of the zero vector of line 79
embedding_call(qv, providerOk) ==
  /\ search.fn = "none"
  /\ LET g == generate_embedding(openai_client, providerOk)
     IN search' = [IdleSearch EXCEPT !.fn = "generate_embedding", !.a = qv,
                      !.exc = g.exc,
                      !.failed = IF ~openai_client \/ ~providerOk THEN "provider" ELSE "none",
                      !.query = IF g.exc = "none" THEN EmbeddingOf(qv, g) ELSE ZeroVec,
                      !.dim = IF g.exc = "none" THEN EmbeddingDim ELSE 0]
  /\ UNCHANGED searchFrame

\* a call of get_similar_redacoes(texto) with the text of document d,
\* whose Embedding record is in the store (limit: its default, 3).  The
\* method takes no id to leave out.
get_similar_redacoes(d, qv, providerOk, outcome, readOk, joinOk) ==
  /\ search.fn = "none"
  /\ \E i \in 1..Len(embeddings) :
       embeddings[i].redacao_id = d /\ embeddings[i].vector = qv
  /\ LET v == VectorSearch(qv, 3, embeddings, openai_client, providerOk,
                           has_vector_search, outcome, readOk)
     IN search' = [IdleSearch EXCEPT !.fn = "get_similar_redacoes", !.doc = d, !.a = qv,
                      !.k = 3, !.query = v.query, !.native = v.native,
                      !.scanned = v.scanned, !.exc = v.exc, !.results = v.results,
                      !.failed = IF joinOk THEN "none" ELSE "join",
                      !.similares = IF v.exc = "none"
                                      THEN GetSimilar(v.results, redacoes, analises, joinOk)
                                      ELSE <<>>]
        /\ has_vector_search' = CachedProbe(has_vector_search, v.native)
  /\ UNCHANGED vsFrame

\* a call of enrich_with_rag
enrich_with_rag(qv, providerOk, outcome, readOk, joinOk, corpusOk) ==
  /\ search.fn = "none"
  /\ LET e == Enrich(qv, embeddings, redacoes, analises, openai_client, providerOk,
                     has_vector_search, outcome, readOk, joinOk, corpusOk)
         v == VectorSearch(qv, 5, embeddings, openai_client, providerOk,
                           has_vector_search, outcome, readOk)
     IN /\ search' = [IdleSearch EXCEPT !.fn = "enrich_with_rag", !.a = qv,
                         !.exc = e.exc, !.failed = e.failed, !.native = v.native,
                         !.similares = e.similares, !.exemplos = e.exemplos]
        /\ has_vector_search' = CachedProbe(has_vector_search, v.native)
  /\ UNCHANGED vsFrame

\* ------- RAGManager._gerar_recomendacoes_contextuais (rag_manager.py 324-336)
MaxSim == 3              \* entries of the list of similar documents
PrincipaisMax == 3       \* rag_manager.py:276  analise.get("recomendacoes", [])[:3]
RecomendacoesMax == 5    \* rag_manager.py:336  unique_recomendacoes[:5]

\* the recomendacoes lists of the stored analyses (recommendations as numbers)
StoredRecs == {<<>>, <<1, 2, 3, 4>>, <<4, 5, 6>>, <<1, 1>>}

\* the entry get_similar_redacoes builds for a hit (lines 264-277): the key
\* analise, with the first three recommendations, only when an Analysis
\* was found
SimilarEntry(hasAnalise, recs) ==
  [analise |-> hasAnalise,
   principais |-> IF hasAnalise THEN TopN(recs, PrincipaisMax) ELSE <<>>]

SimilarEntries ==
  {SimilarEntry(FALSE, <<>>)} \cup {SimilarEntry(TRUE, recs) : recs \in StoredRecs}

SimilarLists == UNION {[1..n -> SimilarEntries] : n \in 0..MaxSim}

RECURSIVE AllRecomendacoes(_)
\* lines 326-330: the loop that extends all_recomendacoes
AllRecomendacoes(similares) ==
  IF similares = <<>> THEN <<>>
  ELSE AllRecomendacoes(SubSeq(similares, 1, Len(similares) - 1))
         \o (IF similares[Len(similares)].analise
               THEN similares[Len(similares)].principais ELSE <<>>)

Items(seq) == {seq[i] : i \in 1..Len(seq)}

RECURSIVE Orders(_)
\* the sequences that list every element of S once
Orders(S) ==
  IF S = {} THEN {<<>>}
  ELSE UNION {{<<x>> \o t : t \in Orders(S \ {x})} : x \in S}

\* mutant: the list is returned as collected
Unique_keepAll(all) == {all}

\* line 333: list(set(all_recomendacoes)); the order a set is iterated in is
\* not determined by the list, so every order is a possible result
Unique(all) == Orders(Items(all))

\* the lists _gerar_recomendacoes_contextuais can return
GerarRecomendacoes(similares) ==
  {TopN(u, RecomendacoesMax) : u \in Unique(AllRecomendacoes(similares))}

\* a call of _gerar_recomendacoes_contextuais(similares)
gerar_recomendacoes_contextuais(similares) ==
  /\ search.fn = "none"
  /\ \E out \in GerarRecomendacoes(similares) :
       search' = [IdleSearch EXCEPT !.fn = "_gerar_recomendacoes_contextuais",
                                    !.similares = similares, !.recomendacoes = out]
  /\ UNCHANGED searchFrame

\* ------------------------- repositories (database/repositories.py 21-156)
RepoOps == {"find_by_id", "find_one", "find_many", "insert_one", "update_one",
            "delete_one", "count", "find_by_redacao", "find_by_user", "update_status"}

\* the operations that take an id and convert it with ObjectId(id)
IdOps == {"find_by_id", "update_one", "delete_one", "find_by_redacao", "find_by_user",
          "update_status"}

\* the statuses the calls write or filter on
CallStatuses == {"processando", "concluida"}

\* lines 118-126: the fields update_status sets
StatusData(st) ==
  IF st = "concluida" THEN [status |-> st, data_conclusao |-> TRUE] ELSE [status |-> st]

\* lines 116, 141, 145, 156: the filter {...: ObjectId(id)} is built before
\* find_one / find_many is entered, outside their try: a malformed id
\* raises bson.errors.InvalidId to the caller
ConvertOutsideTry(idOk) == IF idOk THEN "none" ELSE "InvalidId"

\* One call of a repository operation on document id d (idOk: d is given
\* as a well-formed id; storeOk: the store answers).  Results are named by
\* their Python value.
RepoOp(op, reds, anas, nid, d, idOk, storeOk, st) ==
  LET ret(v) == [exc |-> "none", value |-> v, reds |-> reds, nid |-> nid]
      raise(x) == [exc |-> x, value |-> "none", reds |-> reds, nid |-> nid]
      ok == storeOk /\ (op \in IdOps => idOk)
      found == reds[d].status # "absent"
      withStatus == {x \in DOMAIN reds : reds[x].status = st}
      written(data) == [reds EXCEPT ![d] = SetFields(@, data)]
      update(data) ==                                    \* lines 63-73
        IF ~ok \/ ~found \/ written(data) = reds THEN ret("False")
        ELSE [exc |-> "none", value |-> "True", reds |-> written(data), nid |-> nid]
  IN CASE op = "find_by_id" ->                           \* lines 28-35
            IF ok /\ found THEN ret("record") ELSE ret("None")
       [] op = "find_one" ->                             \* lines 37-43
            IF ok /\ withStatus # {} THEN ret("record") ELSE ret("None")
       [] op = "find_many" ->                            \* lines 45-52
            IF ok /\ withStatus # {} THEN ret("list") ELSE ret("[]")
       [] op = "insert_one" ->                           \* lines 54-61
            IF ~ok THEN ret("None")
            ELSE [exc |-> "none", value |-> "id", nid |-> nid + 1,
                  reds |-> insert_one(reds, nid, NewRedacao(st, MinChars, FALSE), TRUE)]
       [] op = "update_one" -> update([status |-> st])
       [] op = "delete_one" ->                           \* lines 75-82
            IF ~ok \/ ~found THEN ret("False")
            ELSE [exc |-> "none", value |-> "True", nid |-> nid,
                  reds |-> [reds EXCEPT ![d] = NoDoc]]
       [] op = "count" ->                                \* lines 84-90
            IF ok /\ withStatus # {} THEN ret("n") ELSE ret("0")
       [] op = "find_by_redacao" ->                      \* lines 139-141
            IF ConvertOutsideTry(idOk) # "none" THEN raise(ConvertOutsideTry(idOk))
            ELSE IF storeOk /\ (\E a \in anas : a.redacao_id = d)
              THEN ret("record") ELSE ret("None")
       [] op = "find_by_user" ->                         \* lines 114-116
            IF ConvertOutsideTry(idOk) # "none" THEN raise(ConvertOutsideTry(idOk))
            ELSE IF storeOk /\ found THEN ret("list") ELSE ret("[]")
       [] op = "update_status" -> update(StatusData(st)) \* lines 118-126

IdleReply == [fn |-> "none", op |-> "none", doc |-> 0, idOk |-> TRUE, storeOk |-> TRUE,
              kind |-> "none", code |-> 0, status |-> "none", analise |-> 0,
              exc |-> "none", value |-> "none", changed |-> FALSE]

\* a caller makes one repository call
repo_call(op, d, idOk, storeOk, st) ==
  /\ reply.fn = "none"
  /\ op = "insert_one" => nextId <= MaxDocs
  /\ LET res == RepoOp(op, redacoes, analises, nextId, d, idOk, storeOk, st)
     IN /\ redacoes' = res.reds
        /\ nextId' = res.nid
        /\ reply' = [IdleReply EXCEPT !.fn = "repository", !.op = op, !.doc = d,
                        !.idOk = (op \in IdOps => idOk), !.storeOk = storeOk,
                        !.exc = res.exc, !.value = res.value,
                        !.changed = (res.reds # redacoes)]
  /\ UNCHANGED <<analises, embeddings, erros, runs, seed, openai_client, script, inv,
                 writers, search, has_vector_search, asm>>

\* ------------------------------ read endpoint (api/main.py 345-379)
\* mutant: no test of the status before the Analysis is looked up
ObterAnalise_noStatusCheck(reds, anas, d, idOk, readOk, readOk2) ==
  LET found == {a \in anas : a.redacao_id = d}
      r == [IdleReply EXCEPT !.fn = "obter_analise_redacao", !.doc = d, !.idOk = idOk,
                             !.storeOk = readOk]
  IN IF ~idOk \/ ~readOk \/ reds[d].status = "absent" \/ ~readOk2 \/ found = {}
       THEN [r EXCEPT !.kind = "error", !.code = 500, !.exc = "HTTPException"]
       ELSE [r EXCEPT !.kind = "analise", !.code = 200,
                      !.analise = (CHOOSE a \in found : \A b \in found : a.aid <= b.aid).aid]

\* GET /api/redacao/{id}/analise.  An HTTPException raised inside the try
\* (lines 352, 365) is an Exception: line 378 catches it and raises
\* HTTPException(500).  find_by_id gives None for a malformed id and for a
\* store failure; find_by_redacao gives the first Analysis whose redacao_id
\* is the ObjectId, None on a store failure.
ObterAnalise(reds, anas, d, idOk, readOk, readOk2) ==
  LET redacao == RepoOp("find_by_id", reds, anas, 0, d, idOk, readOk, "none").value
      found == {a \in anas : a.redacao_id = d}
      r == [IdleReply EXCEPT !.fn = "obter_analise_redacao", !.doc = d, !.idOk = idOk,
                             !.storeOk = readOk]
  IN IF redacao = "None"
       THEN [r EXCEPT !.kind = "error", !.code = 500, !.exc = "HTTPException"]
     ELSE IF reds[d].status # "concluida"
       THEN [r EXCEPT !.kind = "not_ready", !.code = 200, !.status = reds[d].status]
     ELSE IF RepoOp("find_by_redacao", reds, anas, 0, d, idOk, readOk2, "none").value = "None"
       THEN [r EXCEPT !.kind = "error", !.code = 500, !.exc = "HTTPException",
                      !.storeOk = readOk2]
     ELSE [r EXCEPT !.kind = "analise", !.code = 200,
                    !.analise = (CHOOSE a \in found : \A b \in found : a.aid <= b.aid).aid]

\* GET /api/redacao/{id}/status (main.py 320-342): the HTTPException(404)
\* of line 326 is raised inside the try and caught at line 341, which raises
\* HTTPException(500).  For a Document that is concluida its Analysis is
\* looked up and analise_disponivel tells whether one was found.
VerificarStatus(reds, anas, d, idOk, readOk, readOk2) ==
  LET redacao == RepoOp("find_by_id", reds, anas, 0, d, idOk, readOk, "none").value
      found == {a \in anas : a.redacao_id = d}
      r == [IdleReply EXCEPT !.fn = "verificar_status_redacao", !.doc = d, !.idOk = idOk,
                             !.storeOk = readOk]
  IN IF redacao = "None"
       THEN [r EXCEPT !.kind = "error", !.code = 500, !.exc = "HTTPException"]
     ELSE IF reds[d].status = "concluida"
               /\ RepoOp("find_by_redacao", reds, anas, 0, d, idOk, readOk2, "none").value # "None"
       THEN [r EXCEPT !.kind = "status", !.code = 200, !.status = reds[d].status,
                      !.analise = (CHOOSE a \in found : \A b \in found : a.aid <= b.aid).aid]
     ELSE [r EXCEPT !.kind = "status", !.code = 200, !.status = reds[d].status]

verificar_status_redacao(d, idOk, readOk, readOk2) ==
  /\ reply' = VerificarStatus(redacoes, analises, d, idOk, readOk, readOk2)
  /\ UNCHANGED <<storeVars, runs, seed, openai_client, script, inv, writers, search,
                 has_vector_search, asm>>

obter_analise_redacao(d, idOk, readOk, readOk2) ==
  /\ reply' = ObterAnalise(redacoes, analises, d, idOk, readOk, readOk2)
  /\ UNCHANGED <<storeVars, runs, seed, openai_client, script, inv,
                 writers, search, has_vector_search, asm>>

\* ---------------------------------------------------------- specifications
\* a scoring provider none of whose answers parses as JSON
AlwaysMalformed == [i \in 1..ScriptLen |-> "malformed"]

InitStore ==
  /\ redacoes = [d \in DocIds |-> NoDoc]
  /\ analises = {}
  /\ embeddings = <<>>
  /\ erros = {}
  /\ nextId = 1
  /\ runs = [r \in RunIds |-> IdleRun]
  /\ seed = IdleSeed
  /\ inv = IdleInv
  /\ writers = [w \in WriterIds |-> IdleWriter]
  /\ search = IdleSearch
  /\ asm = IdleAsm
  /\ reply = IdleReply

Init ==
  /\ InitStore
  /\ openai_client \in BOOLEAN
  /\ has_vector_search = FALSE
  /\ script = AlwaysMalformed

Next ==
  \/ \E len \in TextLens, ia \in BOOLEAN, ok \in BOOLEAN : analisar_redacao(len, ia, ok)
  \/ \E r \in RunIds, d \in DocIds, len \in TextLens : dispatch(r, d, len)
  \/ \E r \in RunIds, ok \in BOOLEAN : processar_redacao_async(r, ok)
  \/ \E r \in RunIds, d \in DocIds, len \in WorkerLens, c \in BOOLEAN, ok \in BOOLEAN :
       processar_redacao(r, d, len, c, ok)
  \/ \E ok \in BOOLEAN : SeedRedacao(ok)
  \/ \E ok \in BOOLEAN : SeedAnalise(ok)

Spec == Init /\ [][Next]_vars

\* the scoring agent alone, against every provider behaviour
InitIA ==
  /\ InitStore
  /\ openai_client = TRUE
  /\ has_vector_search = FALSE
  /\ script \in [1..ScriptLen -> Outcomes]

NextIA ==
  \/ \E fn \in Primary \cup Secondary, file \in FileOutcomes, len \in TextSizes :
       IAInvoke(fn, file, len)
  \/ IAStep

SpecIA == InitIA /\ [][NextIA]_vars

\* the assembly stage alone, on every score result
InitAsm ==
  /\ InitStore
  /\ openai_client = TRUE
  /\ has_vector_search = FALSE
  /\ script = AlwaysMalformed

NextAsm ==
  \E raw \in [ScoreFields -> FieldStates], isError \in BOOLEAN,
     sugOut \in Outcomes, kpOut \in Outcomes : AssembleStage(raw, isError, sugOut, kpOut)

SpecAsm == InitAsm /\ [][NextAsm]_vars

\* the embedding writes, by callers that may be different processes
InitEmb ==
  /\ InitStore
  /\ openai_client \in BOOLEAN
  /\ has_vector_search = FALSE
  /\ script = AlwaysMalformed

NextEmb ==
  \/ \E w \in WriterIds, d \in DocIds, t \in Texts : call_store(w, d, t)
  \/ \E w \in WriterIds, pOk \in BOOLEAN, sOk \in BOOLEAN : store_redacao_embedding(w, pOk, sOk)

SpecEmb == InitEmb /\ [][NextEmb]_vars

\* one retrieval call, and a vector_search made again for the same text
\* and limit, over a store whose Embedding records were written before:
\* record i is the one of document i, the i-th inserted
StoredSets ==
  UNION {[1..n -> Vecs] : n \in 0..MaxStored}

StoredOf(vs) ==
  [i \in 1..Len(vs) |->
     [eid |-> i, redacao_id |-> i, vector |-> vs[i],
      snippet |-> [id |-> 1, len |-> MinChars]]]

\* a store the seeding script leaves: Document 1 concluida with its
\* Analysis, Document 2 concluida with its Analysis insert failed (the
\* failure is swallowed by insert_one), no Document for the other ids
InitSearch ==
  /\ redacoes = [d \in DocIds |->
                   IF d <= 2 THEN NewRedacao("concluida", MinChars, TRUE) ELSE NoDoc]
  /\ analises = {[aid |-> 1, redacao_id |-> 1, origem |-> "seed", notas |-> 3,
                  nota_geral |-> TRUE]}
  /\ \E vs \in StoredSets : embeddings = StoredOf(vs)
  /\ erros = {}
  /\ nextId = MaxStored + 1
  /\ runs = [r \in RunIds |-> IdleRun]
  /\ seed = IdleSeed
  /\ inv = IdleInv
  /\ writers = [w \in WriterIds |-> IdleWriter]
  /\ search = IdleSearch
  /\ asm = IdleAsm
  /\ reply = IdleReply
  /\ openai_client \in BOOLEAN
  /\ has_vector_search \in BOOLEAN
  /\ script = AlwaysMalformed

NextSearch ==
  \/ \E a \in Vecs, b \in Vecs : cosine_call(a, b)
  \/ \E qv \in Vecs, pOk \in BOOLEAN : embedding_call(qv, pOk)
  \/ \E d \in 1..MaxStored, qv \in Vecs, pOk \in BOOLEAN, o \in NativeOutcomes,
        rOk \in BOOLEAN, jOk \in BOOLEAN :
       get_similar_redacoes(d, qv, pOk, o, rOk, jOk)
  \/ \E qv \in Vecs, k \in 0..MaxK, pOk \in BOOLEAN, o \in NativeOutcomes, rOk \in BOOLEAN :
       vector_search(qv, k, pOk, o, rOk)
  \/ \E qv \in Vecs, pOk \in BOOLEAN, o \in NativeOutcomes, rOk \in BOOLEAN,
        jOk \in BOOLEAN, cOk \in BOOLEAN :
       enrich_with_rag(qv, pOk, o, rOk, jOk, cOk)

SpecSearch == InitSearch /\ [][NextSearch]_vars

\* submissions, their runs, the seeding script, and the read endpoint
NextRead ==
  \/ \E len \in TextLens, ia \in BOOLEAN, ok \in BOOLEAN : analisar_redacao(len, ia, ok)
  \/ \E r \in RunIds, ok \in BOOLEAN : processar_redacao_async(r, ok)
  \/ \E ok \in BOOLEAN : SeedRedacao(ok)
  \/ \E ok \in BOOLEAN : SeedAnalise(ok)
  \/ \E d \in DocIds, idOk \in BOOLEAN, ok \in BOOLEAN, ok2 \in BOOLEAN :
       obter_analise_redacao(d, idOk, ok, ok2)
  \/ \E d \in DocIds, idOk \in BOOLEAN, ok \in BOOLEAN, ok2 \in BOOLEAN :
       verificar_status_redacao(d, idOk, ok, ok2)

SpecRead == Init /\ [][NextRead]_vars

\* the repository operations, on the stores the seeding script builds
NextRepo ==
  \/ \E ok \in BOOLEAN : SeedRedacao(ok)
  \/ \E ok \in BOOLEAN : SeedAnalise(ok)
  \/ \E op \in RepoOps, d \in DocIds, idOk \in BOOLEAN, ok \in BOOLEAN, st \in CallStatuses :
       repo_call(op, d, idOk, ok, st)

SpecRepo == Init /\ [][NextRepo]_vars

\* the operations below the orchestrator (embedding writes, retrieval,
\* scoring agent), one family per behaviour, on the store the seeding script
\* leaves for its first sample: Document 1, its Analysis and its Embedding
InitOps ==
  /\ redacoes = [d \in DocIds |->
                   IF d = 1 THEN NewRedacao("concluida", MinChars, TRUE) ELSE NoDoc]
  /\ analises = {[aid |-> 1, redacao_id |-> 1, origem |-> "seed", notas |-> 3,
                  nota_geral |-> TRUE]}
  /\ embeddings = StoredOf(<< <<1, 0>> >>)
  /\ erros = {}
  /\ nextId = 2
  /\ runs = [r \in RunIds |-> IdleRun]
  /\ seed = IdleSeed
  /\ inv = IdleInv
  /\ writers = [w \in WriterIds |-> IdleWriter]
  /\ search = IdleSearch
  /\ asm = IdleAsm
  /\ reply = IdleReply
  /\ openai_client \in BOOLEAN
  /\ has_vector_search \in BOOLEAN
  /\ script \in {AlwaysMalformed, [i \in 1..ScriptLen |-> "ok"]}

WritersIdle == \A w \in WriterIds : writers[w].pc = "idle"

NextOps ==
  \/ search.fn = "none" /\ inv.pc = "idle" /\ NextEmb
  \/ WritersIdle /\ inv.pc = "idle" /\ NextSearch
  \/ WritersIdle /\ search.fn = "none" /\ NextIA

SpecOps == InitOps /\ [][NextOps]_vars

\* _gerar_recomendacoes_contextuais on every list of similar documents
NextRec ==
  \E sims \in SimilarLists : gerar_recomendacoes_contextuais(sims)

SpecRec == Init /\ [][NextRec]_vars

\* ------------------------------------------------------------- properties
Exists(d) == redacoes[d].status # "absent"
ApiRun(r) == runs[r].kind = "api"
AnalisesOf(d) == {a \in analises : a.redacao_id = d}

Rank(st) ==
  CASE st = "absent" -> 0
    [] st = "pendente" -> 1
    [] st = "processando" -> 2
    [] st \in Terminal -> 3

C2_RunEndsTerminal ==
  \A r \in RunIds :
    (ApiRun(r) /\ Finished(r) /\ Exists(runs[r].doc))
      => redacoes[runs[r].doc].status \in Terminal

\* C3: a run on a text shorter than 50 characters ends with status erro and
\* the validation message; a run on a text of 50 characters or more is not
\* stopped by the guard and gets to the embedding stage.
C3_LengthGuard ==
  \A r \in RunIds :
    (ApiRun(r) /\ Finished(r) /\ Exists(runs[r].doc))
      => IF runs[r].len < MinChars
           THEN /\ redacoes[runs[r].doc].status = "erro"
                /\ redacoes[runs[r].doc].mensagem_erro = "curto"
           ELSE runs[r].stage = "embedding"

OnlyStatusAndMessage(old, new) ==
  \A f \in DOMAIN old \ {"status", "mensagem_erro"} : new[f] = old[f]

PastGuard(r) == runs[r].kind = "worker" \/ runs[r].stage = "embedding"

\* C5: a run in which an exception was raised in the normal path after the
\* length guard has ended with its document in status erro, the error
\* message stored on the document and a sample of the text persisted.
C5_ExceptionEndsInError ==
  \A r \in RunIds :
    (runs[r].exc # "none" /\ PastGuard(r) /\ Exists(runs[r].doc))
      => /\ Finished(r)
         /\ redacoes[runs[r].doc].status = "erro"
         /\ redacoes[runs[r].doc].mensagem_erro = "exc"
         /\ \E e \in erros : e.redacao_id = runs[r].doc

Quiescent ==
  /\ seed.pc = "redacao"
  /\ \A r \in RunIds : runs[r].pc \in {"idle", "returned", "raised"}

\* C6: a failed Analysis insert never leaves its document concluida: when
\* no run and no script is in the middle of its work, every document with
\* status concluida has an Analysis record in the store.
C6_CompletedHasAnalysis ==
  Quiescent => \A d \in DocIds : redacoes[d].status = "concluida" => AnalisesOf(d) # {}

C8_MalformedDegrades ==
  \A r \in RunIds :
    (ApiRun(r) /\ Finished(r) /\ Exists(runs[r].doc)
       /\ runs[r].len >= MinChars /\ script = AlwaysMalformed)
      => /\ redacoes[runs[r].doc].status = "concluida"
         /\ \E a \in AnalisesOf(runs[r].doc) :
              a.origem = "pipeline" /\ a.notas = 5 /\ a.nota_geral

\* the ceiling the decorator of fn configures (the secondary functions
\* are not decorated: one attempt)
Configured(fn) ==
  CASE fn = "process_document" -> StopAfterProcess
    [] fn = "analyze_text" -> StopAfterAnalyze
    [] OTHER -> 1

\* the ceilings C10 states: 5 for a primary call, 3 for a secondary one
Ceiling(fn) == IF fn \in Secondary THEN 3 ELSE 5

Sentinel(res) ==
  res.kind \in {"error", "empty"} \/ (res.kind = "doc" /\ res.inner = "error")

\* C9: against a provider that raises on its first and second call and
\* answers well on the third, analyze_text / process_document returns the
\* answer of the third call, within the ceiling of attempts.
C9_ThirdAttemptWins ==
  ( /\ inv.pc = "done" /\ inv.fn \in Primary /\ inv.file = "ok"
    /\ script[1] = "raise" /\ script[2] = "raise" /\ script[3] = "ok" )
    => /\ ~inv.raised
       /\ inv.result.attempt = 3
       /\ inv.result.kind = "analysis"
            \/ (inv.result.kind = "doc" /\ inv.result.inner = "analysis")
       /\ inv.calls <= Configured(inv.fn)

\* C10: an invocation makes at most 5 provider calls for a primary function
\* and at most 3 for a secondary one, is over once that many were made, never
\* raises, and when every call it made failed it returns an error result or
\* an empty list.
C10_BoundedAttemptsNoRaise ==
  /\ inv.calls <= Ceiling(inv.fn)
  /\ inv.pc = "running" => inv.calls < Ceiling(inv.fn)
  /\ ~inv.raised
  /\ (inv.pc = "done" /\ \A i \in 1..inv.calls : script[i] # "ok") => Sentinel(inv.result)

\* every call failed and the invocation returned
C10_Witness ==
  /\ inv.pc = "done" /\ inv.fn = "analyze_text"
  /\ inv.calls >= 1 /\ script[1] = "raise"
  /\ inv.result.kind = "error"

\* C11: the Analysis the pipeline assembles for the insert has a non-empty
\* sequence of competency scores, whatever the score result of the provider
\* (competency list absent, null or empty included).
C11_NotasNeverMissing ==
  asm.pc = "assembled"
    => /\ ~asm.analise.notas.null
       /\ asm.analise.notas.items # <<>>

\* C12: in the assembled Analysis, recomendacoes is the score result's when
\* the result has them, else the output of the improvement-suggestions call,
\* else the empty list; pontos_fortes is the score result's when it has
\* them, else the output of the key-point call, else the empty list.
C12_FallbackOrder ==
  asm.pc = "assembled"
    => /\ asm.analise.recomendacoes =
            IF ~asm.isError /\ asm.raw["recomendacoes"] # "absent"
              THEN Value("recomendacoes", asm.raw["recomendacoes"])
            ELSE IF asm.sugCalled /\ asm.sugOut = "ok" THEN List(<<"sugestao">>)
            ELSE List(<<>>)
       /\ asm.analise.pontos_fortes =
            IF ~asm.isError /\ asm.raw["pontos_fortes"] # "absent"
              THEN Value("pontos_fortes", asm.raw["pontos_fortes"])
            ELSE IF asm.kpOut = "ok" THEN List(<<"ponto_chave">>)
            ELSE List(<<>>)

\* a score result with competency scores and without recommendations and
\* strengths was assembled from the outputs of the two secondary calls
C12_Witness ==
  /\ asm.pc = "assembled" /\ ~asm.isError
  /\ asm.raw["notas"] = "list"
  /\ asm.raw["recomendacoes"] = "absent" /\ asm.raw["pontos_fortes"] = "absent"
  /\ asm.analise.recomendacoes = List(<<"sugestao">>)
  /\ asm.analise.pontos_fortes = List(<<"ponto_chave">>)

EmbeddingsOf(d) == {i \in 1..Len(embeddings) : embeddings[i].redacao_id = d}

\* C13: the store holds at most one Embedding record per document id, under
\* every interleaving of the embedding writes, and no write fails because a
\* record for its id is already there.
C13_OneEmbeddingNoDuplicateFailure ==
  /\ \A d \in DocIds : Cardinality(EmbeddingsOf(d)) <= 1
  /\ \A w \in WriterIds : writers[w].exc # "DuplicateKeyError"

\* C14: when a write for a document id returns after an earlier write for
\* the same id had returned, the store holds exactly one Embedding record
\* for the id, with the vector and the snippet of the later text, and both
\* writes returned the id of that record.
C14_LatestWins ==
  [][\A w \in WriterIds :
       (writers[w].pc = "found" /\ writers'[w].pc = "done" /\ writers[w].after # {})
         => LET recs == {i \in 1..Len(embeddings') :
                           embeddings'[i].redacao_id = writers[w].doc}
            IN /\ Cardinality(recs) = 1
               /\ \A i \in recs :
                    /\ embeddings'[i].vector = writers'[w].vector
                    /\ embeddings'[i].vector \in {writers[w].text.vec, ZeroVec}
                    /\ embeddings'[i].snippet = Snippet(writers[w].text)
                    /\ embeddings'[i].eid = writers'[w].result
                    /\ \A q \in writers[w].after : writers[q].result = embeddings'[i].eid]_vars

\* a second write, with another text, has returned after the first one and
\* the record carries the vector of the second text
C14_Witness ==
  \E w \in WriterIds, q \in WriterIds :
    /\ writers[w].pc = "done" /\ q \in writers[w].after
    /\ writers[q].text # writers[w].text
    /\ \E i \in EmbeddingsOf(writers[w].doc) :
         /\ embeddings[i].vector = writers[w].text.vec
         /\ embeddings[i].snippet = Snippet(writers[w].text)

Scanned == search.fn = "vector_search" /\ search.scanned

\* no hit precedes a hit of higher score, and of two hits of equal score
\* the one inserted first comes first
Ordered(res) ==
  \A i \in 1..Len(res), j \in 1..Len(res) :
    i < j => /\ ~ScoreLess(res[i].score, res[j].score)
             /\ ~ScoreLess(res[j].score, res[i].score) => res[i].eid < res[j].eid

\* C15: the ranking of the exhaustive scan is in descending order of score,
\* hits of equal score keep their insertion order, and two scans with the
\* same query vector and limit over the same store give the same ranking.
C15_RankingDeterministicStable ==
  /\ [](Scanned => Ordered(search.results))
  /\ [][(Scanned /\ Scanned' /\ search'.query = search.query /\ search'.k = search.k
           /\ embeddings' = embeddings)
          => search'.results = search.results]_vars

\* a scan ranked a later record first and kept two hits of equal score behind it
C15_Witness ==
  /\ Scanned /\ Len(search.results) >= 3
  /\ search.results[1].eid > search.results[2].eid
  /\ ~ScoreLess(search.results[3].score, search.results[2].score)
  /\ search.results[2].eid < search.results[3].eid

\* C16: the exhaustive scan returns min(k, |stored|) hits, for every k >= 0.
C16_ScanReturnsMinKStored ==
  Scanned => Len(search.results) = Min(search.k, Len(embeddings))

\* a scan for fewer hits than there are records, and more than none
C16_Witness ==
  /\ Scanned /\ search.k > 0 /\ search.k < Len(embeddings)
  /\ Len(search.results) = search.k

\* C17: _cosine_similarity(a, b) is 0.0 when a or b has norm zero, both
\* zero included, and dot(a, b) / (norm(a) * norm(b)) otherwise; it raises
\* in neither case.
C17_CosineZeroNorm ==
  search.fn = "_cosine_similarity"
    => /\ search.exc = "none"
       /\ IF NormSq(search.a) = 0 \/ NormSq(search.b) = 0
            THEN search.score = ZeroScore
            ELSE /\ search.score.dot = Dot(search.a, search.b)
                 /\ search.score.den2 = NormSq(search.a) * NormSq(search.b)
                 /\ search.score.den2 > 0

\* the similarity of two zero vectors was computed
C17_Witness ==
  /\ search.fn = "_cosine_similarity"
  /\ search.a = ZeroVec /\ search.b = ZeroVec
  /\ search.score = ZeroScore

\* C18: when the index is reported available and the native query fails,
\* vector_search raises nothing for it and returns what the exhaustive scan
\* returns for the same query vector, store and limit (the scan's own store
\* read not failing).
C18_NativeFailureFallsBack ==
  (search.fn = "vector_search" /\ search.native = "failed" /\ search.exc # "StoreError")
    => /\ search.exc = "none"
       /\ search.scanned
       /\ search.results = Scan(search.query, embeddings, search.k)

\* the native query failed and the call returned hits
C18_Witness ==
  /\ search.fn = "vector_search" /\ has_vector_search
  /\ search.native = "failed" /\ search.exc = "none"
  /\ Len(search.results) >= 2

\* C19: a call of enrich_with_rag raises for no failure of its sub-steps
\* (query embedding, native query, scan read, joins, corpus read); the
\* failed sub-step contributes an empty result.
C19_EnrichmentNeverFails ==
  search.fn = "enrich_with_rag"
    => /\ search.exc = "none"
       /\ search.failed = "join" => search.similares = <<>>

\* C20: a run on a text of 50 characters or more whose embedding step
\* cannot produce a vector (no provider client) does not end in erro: it
\* ends with status concluida.
C20_EmbeddingFailureDegrades ==
  \A r \in RunIds :
    (ApiRun(r) /\ Finished(r) /\ Exists(runs[r].doc)
       /\ runs[r].len >= MinChars /\ ~openai_client)
      => /\ runs[r].exc = "none"
         /\ redacoes[runs[r].doc].status = "concluida"

\* C21: generate_embedding raises for no failure of the provider, the
\* provider not being configured included: it returns the zero vector of
\* 1536 components.
C21_EmbeddingNeverPropagates ==
  search.fn = "generate_embedding"
    => /\ search.exc = "none"
       /\ search.failed = "provider" => (search.query = ZeroVec /\ search.dim = EmbeddingDim)

\* C22: the similar documents retrieved for the text of document d, whose
\* own Embedding is in the store, have no entry for d itself.
C22_SelfExcluded ==
  search.fn = "get_similar_redacoes"
    => \A i \in 1..Len(search.similares) : search.similares[i].id # search.doc

\* C23: every entry of the list of similar documents comes from a hit whose
\* Document and whose Analysis are both in the store.
C23_MissingJoinSkipped ==
  search.fn \in {"get_similar_redacoes", "enrich_with_rag"}
    => \A i \in 1..Len(search.similares) :
         /\ search.similares[i].id \in DocIds
         /\ Exists(search.similares[i].id)
         /\ search.similares[i].analise

\* C24: on a store with no Embedding record, a run on a text of 50
\* characters or more ends with status concluida and its Analysis persisted.
C24_FreshStoreCompletes ==
  \A r \in RunIds :
    (ApiRun(r) /\ Finished(r) /\ Exists(runs[r].doc)
       /\ runs[r].len >= MinChars /\ embeddings = <<>>)
      => /\ redacoes[runs[r].doc].status = "concluida"
         /\ \E a \in AnalisesOf(runs[r].doc) : a.origem = "pipeline"

StageOrder ==
  <<"update", "guard", "embedding", "persist", "similarity", "scoring",
    "assembly", "insert", "status">>

C27_NotReadyBeforeCompleted ==
  [][(reply' # reply /\ reply'.fn = "obter_analise_redacao"
        /\ Exists(reply'.doc) /\ redacoes[reply'.doc].status # "concluida")
       => /\ reply'.kind # "analise"
          /\ reply'.analise = 0
          /\ (reply'.idOk /\ reply'.storeOk)
               => /\ reply'.kind = "not_ready"
                  /\ reply'.status = redacoes[reply'.doc].status
          /\ \A a \in analises :
               ObterAnalise(redacoes, analises \cup {[a EXCEPT !.redacao_id = reply'.doc]},
                            reply'.doc, reply'.idOk, reply'.storeOk, TRUE) = reply']_vars

\* the analysis of a document that is being processed was asked for, on a
\* store that holds an Analysis
C27_Witness ==
  /\ reply.fn = "obter_analise_redacao" /\ reply.kind = "not_ready"
  /\ reply.status = "processando"
  /\ Exists(reply.doc) /\ redacoes[reply.doc].status = "processando"
  /\ analises # {}

C29_OnlyOrchestratorWritesStatus ==
  [][/\ redacoes' = redacoes
     /\ (search' # search \/ inv' # inv)
          => UNCHANGED <<analises, embeddings, erros, nextId>>]_vars

\* an embedding was written for a document that is concluida, and the
\* document is as it was
C29_Witness ==
  \E w \in WriterIds :
    /\ writers[w].pc = "done" /\ writers[w].doc = 1
    /\ redacoes[1] = NewRedacao("concluida", MinChars, TRUE)
    /\ Len(embeddings) = 1

\* C30: a repository operation called with a malformed id or while the
\* store fails raises nothing: it returns None, [], False or 0 and changes
\* nothing.
C30_RepositoryNeverRaises ==
  (reply.fn = "repository" /\ (~reply.idOk \/ ~reply.storeOk))
    => /\ reply.exc = "none"
       /\ reply.value \in {"None", "[]", "False", "0"}
       /\ ~reply.changed

\* the store as a run on document d sees it when no other document exists
OwnView(reds, d) == [x \in DocIds |-> IF x = d THEN reds[x] ELSE NoDoc]

\* C31: a step of a pipeline run on document A changes no Document,
\* Embedding, Analysis or error record of another document, and what the
\* step does to A and to the run is what it does on a store that holds A
\* alone, whatever the other runs have done.
C31_RunsIndependent ==
  [][\A r \in RunIds :
       (runs[r].kind = "api" /\ runs[r].pc \in {"queued", "guard"} /\ runs'[r] # runs[r])
         => LET a == runs[r].doc
            IN /\ \A d \in DocIds \ {a} : redacoes'[d] = redacoes[d]
               /\ {x \in analises' : x.redacao_id # a} = {x \in analises : x.redacao_id # a}
               /\ {x \in erros' : x.redacao_id # a} = {x \in erros : x.redacao_id # a}
               /\ embeddings' = embeddings
               /\ \A q \in RunIds \ {r} : runs'[q] = runs[q]
               /\ \E ok \in BOOLEAN :
                    LET alone == PipelineStep(runs[r], OwnView(redacoes, a), openai_client, ok)
                    IN /\ runs'[r] = alone.run
                       /\ redacoes'[a] = alone.reds[a]]_vars

\* two runs on two different documents have both ended
C31_Witness ==
  \E r, q \in RunIds :
    /\ ApiRun(r) /\ ApiRun(q) /\ Finished(r) /\ Finished(q)
    /\ runs[r].doc # runs[q].doc
    /\ Exists(runs[r].doc) /\ Exists(runs[q].doc)

\* C32: when the ingestion endpoint dispatches a run for a document id, the
\* Document record of that id is in the store with status processando.
C32_DispatchAfterInsert ==
  [][\A r \in RunIds :
       (runs[r].pc = "idle" /\ runs'[r].pc = "queued" /\ nextId' = nextId + 1)
         => redacoes'[runs'[r].doc].status = "processando"]_vars

\* C33: the aggregate recommendations have no duplicate and at most 5
\* items, every item is a recommendation of an analysis of the list of
\* similar documents, and with no such analysis the result is empty.
C33_RecommendationsDedupCapped ==
  search.fn = "_gerar_recomendacoes_contextuais"
    => LET out == search.recomendacoes
           sims == search.similares
       IN /\ \A i, j \in 1..Len(out) : out[i] = out[j] => i = j
          /\ Len(out) <= RecomendacoesMax
          /\ \A i \in 1..Len(out) :
               \E n \in 1..Len(sims) : sims[n].analise /\ out[i] \in Items(sims[n].principais)
          /\ (\A n \in 1..Len(sims) : ~sims[n].analise) => out = <<>>

\* six different recommendations were collected, one of them twice, and
\* five were returned
C33_Witness ==
  /\ search.fn = "_gerar_recomendacoes_contextuais"
  /\ Len(search.recomendacoes) = RecomendacoesMax
  /\ Cardinality(Items(AllRecomendacoes(search.similares))) > RecomendacoesMax
  /\ Len(AllRecomendacoes(search.similares))
       > Cardinality(Items(AllRecomendacoes(search.similares)))

\* C34: has_vector_search keeps the value it was given when the RAGManager
\* was constructed: no call of vector_search, whatever its native query
\* does, changes it.
C34_ProbeCached ==
  [][has_vector_search' = has_vector_search]_vars

\* the index was reported available and the native query of a call failed
C34_Witness ==
  /\ search.fn \in {"vector_search", "get_similar_redacoes", "enrich_with_rag"}
  /\ search.native = "failed"
  /\ has_vector_search

\* the native path of the call made produced no result
NativeEmpty ==
  \/ search.native \in {"skipped", "failed"}
  \/ search.native = "answered" /\ Scan(search.query, embeddings, search.k) = <<>>

\* C37: vector_search runs the exhaustive scan if and only if the native
\* path produced no result (index unavailable, query failed, or empty
\* answer); a non-empty native answer is returned as it is, with at most k
\* entries.
C37_ScanIffNativeEmpty ==
  search.fn = "vector_search"
    => /\ (search.scanned \/ search.exc = "StoreError") <=> NativeEmpty
       /\ (search.native = "answered" /\ ~NativeEmpty)
            => /\ search.exc = "none"
               /\ search.results = Scan(search.query, embeddings, search.k)
               /\ Len(search.results) <= search.k

\* the native query answered with hits and they were returned without a scan
C37_Witness ==
  /\ search.fn = "vector_search" /\ search.native = "answered"
  /\ ~search.scanned /\ search.exc = "none"
  /\ Len(search.results) >= 2

\* C35: the essay text analyze_text places in the scoring request has at
\* most 14,000 characters, and a text of at most 14,000 characters is
\* placed whole.
C35_PromptTextCapped ==
  (inv.fn = "analyze_text" /\ inv.pc # "idle")
    => /\ inv.essay.len <= MaxChars
       /\ inv.text <= MaxChars => inv.essay = [len |-> inv.text, kept |-> inv.text]

\* C36: a status or analysis retrieval for an id that has no Document
\* record, and an analysis retrieval for a Document that is concluida and
\* has no Analysis record, answer 404 when the store answers their reads.
C36_NotFoundIs404 ==
  [][(reply' # reply /\ reply'.fn \in {"verificar_status_redacao", "obter_analise_redacao"}
        /\ reply'.idOk /\ reply'.storeOk
        /\ \/ ~Exists(reply'.doc)
           \/ /\ reply'.fn = "obter_analise_redacao"
              /\ redacoes[reply'.doc].status = "concluida"
              /\ AnalisesOf(reply'.doc) = {})
       => reply'.code = 404]_vars

C39_WorkerAllOrNothing ==
  [][\A r \in RunIds :
       (runs[r].pc = "idle" /\ runs'[r].kind = "worker")
         => LET d == runs'[r].doc
            IN /\ (runs'[r].pc = "raised" /\ \E e \in erros' : e.redacao_id = d)
                    => analises' = analises
               /\ runs'[r].pc = "returned"
                    => /\ erros' = erros
                       /\ \E a \in analises' \ analises :
                            a.redacao_id = d /\ analises' = analises \cup {a}]_vars

\* a worker run recorded its failure and raised; its document has no
\* Analysis of the worker
C39_Witness ==
  \E r \in RunIds :
    /\ runs[r].kind = "worker" /\ runs[r].pc = "raised"
    /\ \E e \in erros : e.redacao_id = runs[r].doc
    /\ \A a \in AnalisesOf(runs[r].doc) : a.origem # "worker"

====
